---------------------------- MODULE Spec2Model ----------------------------
(***************************************************************************)
(* IMX500 MobileNet SSD post-processing stage                              *)
(* (post_processing_stages/imx500_mobilenet.cpp).                          *)
(*                                                                         *)
(* One decode call, MobileNet::Process: parseHeader, parseApParams,        *)
(* populateOutputBodyInfo, parseOutputTensorBody (offset planning, one     *)
(* std::async task per output tensor, join) and processOutputTensor.       *)
(*                                                                         *)
(* Conventions.                                                            *)
(*  - float values are modelled by integers (scale is an integer), so NaN, *)
(*    infinities and rounding are outside the model.                       *)
(*  - uint32_t values that can exceed 2^31 are kept as four base-256       *)
(*    digits, least significant first (U32 below), with the arithmetic of  *)
(*    the C++ type (modulo 2^32).                                          *)
(*  - behaviour that C++ leaves undefined is resolved by the variable      *)
(*    arch, chosen once per behaviour: integer division by zero traps on   *)
(*    x86_64 and yields 0 on aarch64; an out-of-range float to unsigned    *)
(*    conversion wraps on x86_64 and saturates on aarch64.                 *)
(*  - the flatbuffers reader (apParams.flatbuffers_generated.h) is not     *)
(*    part of the source file: the decoded table is an input (src.fb).     *)
(*  - Process passes a stride of 4064 (line 178); parseHeader and          *)
(*    parseOutputTensorBody take the stride as a parameter, and the model  *)
(*    also runs them with small strides, where a schema of a few bytes     *)
(*    wraps to the next line.                                              *)
(*  - a task of parseOutputTensorBody takes one step to start, one step    *)
(*    per line of its tensor and one step for its reorder or copy; the     *)
(*    steps of different tasks and of the join loop interleave freely.     *)
(***************************************************************************)
EXTENDS Integers, Sequences, FiniteSets, TLC

\* ------------------------------------------------------------ constants
PplTotalDetections == 10
PplDnnOutputTensorSize == 61
DnnHeaderSize == 12
MipiPhSize == 0
DimensionMax == 3
TYPE_SIGNED == 0
TYPE_UNSIGNED == 1
SizeofFloat == 4
SizeofUint32 == 4

Archs == {"x86_64", "aarch64"}

Min(a, b) == IF a < b THEN a ELSE b

RECURSIVE SumSeq(_)
SumSeq(s) == IF s = <<>> THEN 0 ELSE Head(s) + SumSeq(Tail(s))

RECURSIVE ProdSeq(_)
ProdSeq(s) == IF s = <<>> THEN 1 ELSE Head(s) * ProdSeq(Tail(s))

\* ------------------------------------------------- uint32_t arithmetic
\* A uint32_t is <<d0, d1, d2, d3>>, value d0 + 256 d1 + 256^2 d2 + 256^3 d3.
U32Of(n) == << n % 256, (n \div 256) % 256, (n \div 65536) % 256, (n \div 16777216) % 256 >>

U32Val(a) == a[1] + 256 * a[2] + 65536 * a[3] + 16777216 * a[4]

UINT32_MAX == << 255, 255, 255, 255 >>

\* a * k modulo 2^32 with the carry out of the top digit, for 0 <= k < 2^16.
U32MulCarry(a, k) ==
    LET t1 == a[1] * k
        t2 == a[2] * k + (t1 \div 256)
        t3 == a[3] * k + (t2 \div 256)
        t4 == a[4] * k + (t3 \div 256)
    IN [val |-> << t1 % 256, t2 % 256, t3 % 256, t4 % 256 >>, carry |-> t4 \div 256]

U32Mul(a, k) == U32MulCarry(a, k).val

U32AddCarry(a, b) ==
    LET t1 == a[1] + b[1]
        t2 == a[2] + b[2] + (t1 \div 256)
        t3 == a[3] + b[3] + (t2 \div 256)
        t4 == a[4] + b[4] + (t3 \div 256)
    IN [val |-> << t1 % 256, t2 % 256, t3 % 256, t4 % 256 >>, carry |-> t4 \div 256]

U32Add(a, b) == U32AddCarry(a, b).val

\* UINT32_MAX - a
U32Not(a) == << 255 - a[1], 255 - a[2], 255 - a[3], 255 - a[4] >>

\* a / k for 1 <= k < 2^16 (long division from the top digit).
U32Div(a, k) ==
    LET t4 == a[4]
        t3 == (t4 % k) * 256 + a[3]
        t2 == (t3 % k) * 256 + a[2]
        t1 == (t2 % k) * 256 + a[1]
    IN << t1 \div k, t2 \div k, t3 \div k, t4 \div k >>

U32Ge(a, b) ==
    \/ a[4] > b[4]
    \/ a[4] = b[4] /\ a[3] > b[3]
    \/ a[4] = b[4] /\ a[3] = b[3] /\ a[2] > b[2]
    \/ a[4] = b[4] /\ a[3] = b[3] /\ a[2] = b[2] /\ a[1] >= b[1]

U32Gt(a, b) == U32Ge(a, b) /\ a # b

\* ------------------------------------------- undefined conversions
\* float -> unsigned int (line 682): defined for 0 <= v < 2^32.
\* The result is a uint32_t; a negative v gives 0 (saturation) or 2^32 + v.
FloatToUint(a, v) ==
    IF v >= 0 THEN U32Of(v)
    ELSE IF a = "aarch64" THEN U32Of(0)
    ELSE U32Not(U32Of((-v) - 1))

\* float -> uint16_t (lines 709-712) and uint16_t of std::ceil (line 445).
FloatToUint16(a, v) ==
    IF v >= 0 THEN v % 65536
    ELSE IF a = "aarch64" THEN 0
    ELSE v % 65536

\* float -> uint8_t (line 716).
FloatToUint8(a, v) ==
    IF v >= 0 THEN v % 256
    ELSE IF a = "aarch64" THEN 0
    ELSE v % 256

\* ------------------------------------------------------------ the buffer
\* The raw inference buffer: 12 header bytes (a DnnHeader, little endian),
\* then bytes given by a pattern: byte at offset off is
\* (pat.mul * off + pat.add) % pat.mod.
HeaderByte(h, off) ==
    CASE off = 0 -> h.frameValid
      [] off = 1 -> h.frameCount
      [] off = 2 -> h.maxLineLen % 256
      [] off = 3 -> h.maxLineLen \div 256
      [] off = 4 -> h.apParamSize % 256
      [] off = 5 -> h.apParamSize \div 256
      [] off = 6 -> h.networkId % 256
      [] off = 7 -> h.networkId \div 256
      [] off = 8 -> h.tensorType
      [] OTHER -> 0

SrcByte(s, off) ==
    IF off < DnnHeaderSize THEN HeaderByte(s.hdr, off)
    ELSE (s.pat.mul * off + s.pat.add) % s.pat.mod

VARIABLES
    arch,             \* the build's resolution of undefined behaviour
    src,              \* the buffer: [hdr, pat, fb]
    stride,           \* bytes per line (Process, line 178)
    maxDetections_,   \* config
    threshold_,       \* config
    classes_,         \* number of class labels loaded by Read
    pc,               \* position of Process
    dnnHeader_,
    apParams_,
    outputApParams_,
    outputBodyInfo_,  \* [address, totalSize, tensorNum, tensorDataNum]
    body,             \* locals of parseOutputTensorBody
    tasks,            \* the std::async tasks, by tensor index
    results,          \* post_process_metadata "object_detect.results"
    obs               \* observation: return codes, bytes read, indices written

vars == << arch, src, stride, maxDetections_, threshold_, classes_, pc, dnnHeader_,
           apParams_, outputApParams_, outputBodyInfo_, body, tasks, results, obs >>

inputs == << arch, src, stride, maxDetections_, threshold_, classes_ >>

\* ---------------------------------------------------------- parseHeader
\* dnnHeader_ = *(DnnHeader *)src
ReadDnnHeader(s) ==
    [frameValid |-> SrcByte(s, 0),
     frameCount |-> SrcByte(s, 1),
     maxLineLen |-> SrcByte(s, 2) + 256 * SrcByte(s, 3),
     apParamSize |-> SrcByte(s, 4) + 256 * SrcByte(s, 5),
     networkId |-> SrcByte(s, 6) + 256 * SrcByte(s, 7),
     tensorType |-> SrcByte(s, 8)]

\* if (stride && i >= stride) i = 0;
WrapCursorBug(i, st) == IF st # 0 /\ i >= st THEN DnnHeaderSize ELSE i

WrapCursor(i, st) == IF st # 0 /\ i >= st THEN 0 ELSE i

\* if (stride && i >= stride) src += stride + MipiPhSize;
WrapBase(base, i, st) == IF st # 0 /\ i >= st THEN base + st + MipiPhSize ELSE base

\* The buffer offsets read for apParams_[j .. n-1], the cursor being i and src
\* being base on entry of iteration j.
RECURSIVE CopyApParams(_, _, _, _, _)
CopyApParams(j, n, i, base, st) ==
    IF j >= n THEN << >>
    ELSE LET i1 == WrapCursor(i, st)
             b1 == WrapBase(base, i, st)
         IN << b1 + i1 >> \o CopyApParams(j + 1, n, i1 + 1, b1, st)

parseHeader(s, st) ==
    LET h == ReadDnnHeader(s)
        offs == CopyApParams(0, h.apParamSize, DnnHeaderSize, 0, st)
    IN IF h.frameValid = 0
       THEN [ret |-> -1, hdr |-> h, read |-> << >>, apParams |-> << >>]
       ELSE [ret |-> 0, hdr |-> h, read |-> offs,
             apParams |-> [j \in 1..Len(offs) |-> SrcByte(s, offs[j])]]

\* -------------------------------------------------------- parseApParams
\* lines 287-301: the dimensions of one output tensor; "bad" on a non-zero padding.
RECURSIVE ReadDimensions(_)
ReadDimensions(fbDims) ==
    IF fbDims = << >> THEN [ok |-> TRUE, vecDim |-> << >>]
    ELSE LET d == Head(fbDims)
             dim == [ordinal |-> d.id, size |-> d.size,
                     serializationIndex |-> d.serializationIndex, padding |-> d.padding]
         IN IF dim.padding # 0 THEN [ok |-> FALSE, vecDim |-> << >>]
            ELSE LET rest == ReadDimensions(Tail(fbDims))
                 IN [ok |-> rest.ok, vecDim |-> << dim >> \o rest.vecDim]

\* lines 277-310: the output tensors of the selected network, in declaration order.
RECURSIVE ReadOutputTensors(_, _)
ReadOutputTensors(fbTensors, acc) ==
    IF fbTensors = << >> THEN [ret |-> 0, out |-> acc]
    ELSE LET t == Head(fbTensors)
             dims == ReadDimensions(t.dimensions)
         IN IF ~dims.ok THEN [ret |-> -1, out |-> acc]
            ELSE ReadOutputTensors(Tail(fbTensors),
                     Append(acc, [id |-> t.id, numDimensions |-> t.numOfDimensions,
                                  bitsPerElement |-> t.bitsPerElement, vecDim |-> dims.vecDim,
                                  shift |-> t.shift, scale |-> t.scale, format |-> t.format]))

\* lines 267-313: the first network whose id is the header's networkId.
RECURSIVE SelectNetwork(_, _)
SelectNetwork(fbNetworks, networkId) ==
    IF fbNetworks = << >> THEN [ret |-> 0, out |-> << >>]
    ELSE IF Head(fbNetworks).id # networkId THEN SelectNetwork(Tail(fbNetworks), networkId)
    ELSE ReadOutputTensors(Head(fbNetworks).outputTensors, << >>)

parseApParams(fb, hdr) == SelectNetwork(fb.networks, hdr.networkId)

\* ----------------------------------------------- populateOutputBodyInfo
\* UINT32_MAX / dim.size (line 327): a division by zero when dim.size is 0.
DivTraps(a, k) == k = 0 /\ a = "x86_64"

MaxOver(k) == IF k = 0 THEN U32Of(0) ELSE U32Div(UINT32_MAX, k)

\* if (totalDimensionSize >= UINT32_MAX / dim.size)
DimOverflowUnchecked(acc, size) == FALSE

DimOverflow(acc, size) == U32Ge(acc, MaxOver(size))

\* lines 324-334: the product of one tensor's dimension sizes.
RECURSIVE DimensionSize(_, _, _)
DimensionSize(a, dims, acc) ==
    IF dims = << >> THEN [st |-> "ok", val |-> acc]
    ELSE LET size == Head(dims).size
         IN IF DivTraps(a, size) THEN [st |-> "fault", val |-> acc]
            ELSE IF DimOverflow(acc, size) THEN [st |-> "error", val |-> acc]
            ELSE DimensionSize(a, Tail(dims), U32Mul(acc, size))

\* lines 321-343: totalOutSize over all tensors.
RECURSIVE TotalOutSize(_, _, _)
TotalOutSize(a, aps, acc) ==
    IF aps = << >> THEN [st |-> "ok", val |-> acc]
    ELSE LET d == DimensionSize(a, Head(aps).vecDim, U32Of(1))
         IN IF d.st # "ok" THEN d
            ELSE IF U32Ge(acc, U32Not(d.val)) THEN [st |-> "error", val |-> acc]
            ELSE TotalOutSize(a, Tail(aps), U32Add(acc, d.val))

ZeroArray(n) == [i \in 0..(n - 1) |-> 0]

EmptyBodyInfo == [address |-> ZeroArray(0), totalSize |-> 0, tensorNum |-> 0,
                  tensorDataNum |-> ZeroArray(0)]

\* [st, info]: st is "ok" (returns 0), "error" (returns -1) or "fault".
populateOutputBodyInfo(a, aps, old) ==
    LET t == TotalOutSize(a, aps, U32Of(0))
        n == Len(aps)
    IN IF t.st # "ok" THEN [st |-> t.st, info |-> old]
       ELSE IF t.val = U32Of(0) THEN [st |-> "error", info |-> old]
       ELSE IF U32Ge(t.val, U32Div(UINT32_MAX, SizeofFloat)) THEN [st |-> "error", info |-> old]
       ELSE LET total == U32Val(t.val)
                cleared == [EmptyBodyInfo EXCEPT !.address = ZeroArray(total)]
            IN IF n = 0 THEN [st |-> "error", info |-> cleared]
               ELSE IF U32Ge(U32Of(n), U32Div(UINT32_MAX, SizeofUint32))
                    THEN [st |-> "error", info |-> cleared]
               ELSE [st |-> "ok",
                     info |-> [address |-> ZeroArray(total), totalSize |-> total,
                               tensorNum |-> n, tensorDataNum |-> ZeroArray(n)]]

\* ------------------------------------- parseOutputTensorBody: planning
CeilDiv(a, b) == (a + b - 1) \div b

\* lines 429-443: serializedDim and actualDim of one tensor, as functions on
\* 0..numDimensions-1 of [size, serializationIndex]; both start value-initialised.
RECURSIVE FillDims(_, _, _, _)
FillDims(vecDim, idx, serializedDim, actualDim) ==
    IF idx >= Len(vecDim) THEN [serializedDim |-> serializedDim, actualDim |-> actualDim]
    ELSE LET d == vecDim[idx + 1]
             si == d.serializationIndex
         IN FillDims(vecDim, idx + 1,
                [serializedDim EXCEPT ![si] = [size |-> d.size, serializationIndex |-> idx]],
                [actualDim EXCEPT ![idx] = [size |-> d.size, serializationIndex |-> si]])

\* lines 425-439: tensorOutSize = (bitsPerElement / 8) * sizes, with the check of
\* line 435 after every multiplication. [st, val], val a uint32_t.
RECURSIVE TensorOutSize(_, _, _, _)
TensorOutSize(a, bits, dims, acc) ==
    IF dims = << >> THEN [st |-> "ok", val |-> acc]
    ELSE LET next == U32Mul(acc, Head(dims).size)
         IN IF DivTraps(a, bits) THEN [st |-> "fault", val |-> next]
            ELSE IF U32Ge(next, U32Div(MaxOver(bits), 8)) THEN [st |-> "error", val |-> next]
            ELSE TensorOutSize(a, bits, Tail(dims), next)

\* offset += tensorDataNum (line 455)
NextOffset(offset, tensorDataNum) == offset + tensorDataNum

EmptyPlan == [numLinesVec |-> << >>, outSizes |-> << >>, offsets |-> << >>, srcArr |-> << >>,
              serializedDims |-> << >>, actualDims |-> << >>]

\* lines 415-462, from tensor tensorIdx on. src1 is a buffer offset, counted from
\* the start of the buffer. [st, plan, tensorDataNum]; the plan's vectors are
\* sequences, entry tensorIdx + 1 for tensor tensorIdx.
RECURSIVE PlanTensors(_, _, _, _, _, _, _, _, _)
PlanTensors(a, aps, hdr, st, totalSize, tensorIdx, src1, offset, acc) ==
    IF tensorIdx >= Len(aps) THEN [st |-> "ok", plan |-> acc.plan, tensorDataNum |-> acc.tdn]
    ELSE
      LET param == aps[tensorIdx + 1]
          n == param.numDimensions
          blank == [i \in 0..(n - 1) |-> [size |-> 0, serializationIndex |-> 0]]
          inRange == \A i \in 1..n : param.vecDim[i].serializationIndex < n
          size == TensorOutSize(a, param.bitsPerElement, param.vecDim,
                                U32Of(param.bitsPerElement \div 8))
          stop(s) == [st |-> s, plan |-> acc.plan, tensorDataNum |-> acc.tdn]
      IN IF ~inRange THEN stop("fault")          \* write past the end of serializedDim
         ELSE IF size.st # "ok" THEN stop(size.st)
         ELSE
           LET dims == FillDims(param.vecDim, 0, blank, blank)
               tensorOutSize == U32Val(size.val)
               numLines == FloatToUint16(a, CeilDiv(tensorOutSize, hdr.maxLineLen))
               width == param.bitsPerElement \div 8
               tensorDataNum == IF width = 0 THEN 0 ELSE tensorOutSize \div width
               offset1 == NextOffset(offset, tensorDataNum)
               plan1 == [numLinesVec |-> Append(acc.plan.numLinesVec, numLines),
                         outSizes |-> Append(acc.plan.outSizes, tensorOutSize),
                         offsets |-> Append(acc.plan.offsets, offset),
                         srcArr |-> Append(acc.plan.srcArr, src1),
                         serializedDims |-> Append(acc.plan.serializedDims, dims.serializedDim),
                         actualDims |-> Append(acc.plan.actualDims, dims.actualDim)]
               acc1 == [plan |-> plan1, tdn |-> [acc.tdn EXCEPT ![tensorIdx] = tensorDataNum]]
           IN IF DivTraps(a, width) THEN [st |-> "fault", plan |-> plan1, tensorDataNum |-> acc.tdn]
              ELSE IF offset1 > totalSize
                   THEN [st |-> "error", plan |-> plan1, tensorDataNum |-> acc1.tdn]
              ELSE PlanTensors(a, aps, hdr, st, totalSize, tensorIdx + 1,
                               src1 + numLines * st, offset1, acc1)

\* lines 468-475: the order in which the tasks are started. idxs is a function on
\* 0..n-1; the loops swap idxs[i] and idxs[j] whenever tensor idxs[i] has more lines.
RECURSIVE SortIdxs(_, _, _, _)
SortIdxs(idxs, numLinesVec, i, j) ==
    LET n == Len(numLinesVec)
    IN IF i >= n THEN idxs
       ELSE IF j >= n THEN SortIdxs(idxs, numLinesVec, i + 1, 0)
       ELSE IF numLinesVec[idxs[i] + 1] > numLinesVec[idxs[j] + 1]
            THEN SortIdxs([idxs EXCEPT ![i] = idxs[j], ![j] = idxs[i]], numLinesVec, i, j + 1)
       ELSE SortIdxs(idxs, numLinesVec, i, j + 1)

\* --------------------------------------- parseOutputTensorBody: one task
\* getVal8<int8_t> / getVal8<uint8_t> (lines 385-391)
getVal8(format, byte, param) ==
    LET temp == IF format = TYPE_SIGNED /\ byte >= 128 THEN byte - 256 ELSE byte
    IN (temp - param.shift) * param.scale

\* bytes_to_uint16 / bytes_to_int16 (lines 393-394), assigned to uint16_t / int16_t
getVal16(format, msb, lsb, param) ==
    LET raw == (msb % 256) * 256 + (lsb % 256)
        temp == IF format = TYPE_SIGNED /\ raw >= 32768 THEN raw - 65536 ELSE raw
    IN (temp - param.shift) * param.scale

\* lines 493-497
SortingRequired(param) ==
    \E idx \in 1..param.numDimensions :
        param.vecDim[idx].serializationIndex # param.vecDim[idx].ordinal

\* The while loops of lines 512-522 (width 1) and 533-553 (width 2) over one line:
\* the sequence of [e, at]: element e is read at column at of the line.
\* Iteration n (from 0) reads element elementIndex + n at column lineIndex + n * width
\* while that column is below maxLineLen, and the loop ends after the first
\* iteration whose incremented elementIndex meets the break condition.
ScanLine(lineIndex, elementIndex, maxLineLen, width, outputTensorSize) ==
    LET breaks(n) == IF width = 1 THEN elementIndex + n + 1 = outputTensorSize
                     ELSE elementIndex + n + 1 >= outputTensorSize \div 2
        runs == {n \in 0..maxLineLen : /\ lineIndex + n * width < maxLineLen
                                        /\ \A m \in 0..(n - 1) : ~breaks(m)}
    IN [n \in 1..Cardinality(runs) |->
            [e |-> elementIndex + (n - 1), at |-> lineIndex + (n - 1) * width]]

\* lines 520-525 and 551-556: the break out of the loop over the lines
ExtractDone(elementIndex, width, outputTensorSize) ==
    IF width = 1 THEN elementIndex = outputTensorSize
    ELSE elementIndex >= outputTensorSize \div 2

\* The value of the element read at buffer offset off.
ElementValue(s, param, off) ==
    IF param.bitsPerElement = 8 THEN getVal8(param.format, SrcByte(s, off), param)
    ELSE getVal16(param.format, SrcByte(s, off + 1), SrcByte(s, off), param)

\* tmpDst[offset + elementIndex] = value, for the elements of one line in order.
StoreLine(tmpDst, s, param, offset, lineSrc, scan) ==
    [x \in DOMAIN tmpDst |->
        IF \E n \in 1..Len(scan) : offset + scan[n].e = x
        THEN LET n == CHOOSE n \in 1..Len(scan) : offset + scan[n].e = x
             IN ElementValue(s, param, lineSrc + scan[n].at)
        ELSE tmpDst[x]]

\* The buffer offsets read for the element at off.
ElementBytes(param, off) == IF param.bitsPerElement = 8 THEN {off} ELSE {off, off + 1}

\* for (j = serializedDim[i].serializationIndex; j > 0; j--) coef *= actualDim[j - 1].size
\* (coef is a uint32_t; the products of the model stay far below 2^32)
RECURSIVE CoefShort(_, _)
CoefShort(j, actualDim) == IF j <= 1 THEN 1 ELSE actualDim[j - 1].size * CoefShort(j - 1, actualDim)

RECURSIVE Coef(_, _)
Coef(j, actualDim) == IF j <= 0 THEN 1 ELSE actualDim[j - 1].size * Coef(j - 1, actualDim)

\* lines 571-585: loopCnt and coef, functions on 0..DimensionMax-1.
SortPreparation(param, serializedDim, actualDim) ==
    LET used == 0..(Min(param.numDimensions, DimensionMax) - 1)
    IN [loopCnt |-> [i \in 0..(DimensionMax - 1) |->
                        IF i \in used THEN serializedDim[i].size ELSE 1],
        coef |-> [i \in 0..(DimensionMax - 1) |->
                        IF i \in used THEN Coef(serializedDim[i].serializationIndex, actualDim)
                        ELSE 1]]

\* lines 587-600: the moves dst[offset + to] = tmpDst[offset + from], in order. The
\* loops run i < loopCnt[2] outermost, then j < loopCnt[1], then k < loopCnt[0], and
\* srcIndex counts the iterations: iteration srcIndex has these i, j and k.
SortExecution(loopCnt, coef) ==
    [n \in 1..(loopCnt[2] * loopCnt[1] * loopCnt[0]) |->
        LET srcIndex == n - 1
            k == srcIndex % loopCnt[0]
            j == (srcIndex \div loopCnt[0]) % loopCnt[1]
            i == srcIndex \div (loopCnt[0] * loopCnt[1])
        IN [from |-> srcIndex, to |-> coef[2] * i + coef[1] * j + coef[0] * k]]

\* memcpy(dst + offset, tmpDst.data() + offset, count * sizeof(float)) (lines 604-607)
CopyMoves(count) == [n \in 1..count |-> [from |-> n - 1, to |-> n - 1]]

\* The moves applied to dst in order: an index keeps the value of the last move
\* to it. A move outside the arrays changes nothing here (it is recorded among the
\* indices written).
ApplyMoves(dst, tmpDst, offset, moves) ==
    [x \in DOMAIN dst |->
        LET to == {n \in 1..Len(moves) : /\ offset + moves[n].to = x
                                         /\ (offset + moves[n].from) \in DOMAIN tmpDst}
        IN IF to = {} THEN dst[x]
           ELSE LET last == CHOOSE n \in to : \A m \in to : m <= n
                IN tmpDst[offset + moves[last].from]]

\* The moves of the task of tensor tensorIdx once its values are extracted.
TaskMoves(param, plan, tensorIdx) ==
    IF SortingRequired(param)
    THEN LET prep == SortPreparation(param, plan.serializedDims[tensorIdx + 1],
                                     plan.actualDims[tensorIdx + 1])
         IN SortExecution(prep.loopCnt, prep.coef)
    ELSE IF param.bitsPerElement = 8 THEN CopyMoves(plan.outSizes[tensorIdx + 1])
    ELSE CopyMoves(plan.outSizes[tensorIdx + 1] \div 2)

\* ------------------------------------------------- processOutputTensor
\* lines 626-691, data a function on 0..60. [ret, output].
createObjectDetectionSsdData(a, data, totalDetections) ==
    LET cand == 0..(totalDetections - 1)
        n == FloatToUint(a, data[6 * totalDetections])
    IN IF totalDetections * 4 > PplDnnOutputTensorSize \/ 6 * totalDetections > PplDnnOutputTensorSize
       THEN [ret |-> -1, output |-> [numDetections |-> 0]]
       ELSE [ret |-> 0,
             output |-> [numDetections |-> IF U32Gt(n, U32Of(totalDetections))
                                           THEN totalDetections ELSE U32Val(n),
                         bboxes |-> [i \in cand |->
                                        [yMin |-> data[i], xMin |-> data[i + totalDetections],
                                         yMax |-> data[i + 2 * totalDetections],
                                         xMax |-> data[i + 3 * totalDetections]]],
                         classes |-> [i \in cand |-> data[4 * totalDetections + i]],
                         scores |-> [i \in cand |-> data[5 * totalDetections + i]]]]

\* if (tensor.scores[i] < threshold) continue;
Filtered(score, threshold) == score < threshold

\* lines 699-717: the loop over i < tensor.numDetections pushes the candidates it
\* does not skip, in the order of i.
FilterDetections(a, tensor, threshold, dim) ==
    LET pushed == {i \in 0..(tensor.numDetections - 1) : ~Filtered(tensor.scores[i], threshold)}
        nth(n) == CHOOSE i \in pushed : Cardinality({m \in pushed : m < i}) = n - 1
    IN [n \in 1..Cardinality(pushed) |->
          LET i == nth(n)
          IN [score |-> tensor.scores[i],
              bbox |-> [mXmin |-> FloatToUint16(a, tensor.bboxes[i].xMin * (dim.width - 1)),
                        mYmin |-> FloatToUint16(a, tensor.bboxes[i].yMin * (dim.height - 1)),
                        mXmax |-> FloatToUint16(a, tensor.bboxes[i].xMax * (dim.width - 1)),
                        mYmax |-> FloatToUint16(a, tensor.bboxes[i].yMax * (dim.height - 1))],
              class |-> FloatToUint8(a, tensor.classes[i])]]

\* lines 693-742: the sequence of kept detections; data.numDetections is its length.
analyseObjectDetectionSsdOutput(a, tensor, maxDetections, threshold, dim) ==
    LET kept == FilterDetections(a, tensor, threshold, dim)
    IN IF Len(kept) > maxDetections THEN SubSeq(kept, 1, maxDetections) ELSE kept

\* lines 744-764
processOutputTensor(a, info, maxDetections, threshold, dim) ==
    IF info.totalSize # PplDnnOutputTensorSize THEN << >>
    ELSE LET c == createObjectDetectionSsdData(a, info.address, PplTotalDetections)
         IN IF c.ret # 0 THEN << >>
            ELSE analyseObjectDetectionSsdOutput(a, c.output, maxDetections, threshold, dim)

\* ------------------------------------------------------------- Process
NoTask == [pc |-> "none", i |-> 0, elementIndex |-> 0, src |-> 0, ret |-> 0]

NoBody == [tmpDst |-> ZeroArray(0), plan |-> EmptyPlan, idxs |-> ZeroArray(0),
           launched |-> 0, joined |-> 0, ret |-> 0]

\* What a decode has done so far: the stages that have returned and their return
\* values, the buffer bytes read, the array indices written by each task.
NoObs == [ran |-> {}, hdrRet |-> 0, apRet |-> 0, popSt |-> "none", planSt |-> "none",
          bodyRet |-> 0, schemaRead |-> {}, bodyRead |-> {},
          wroteTmp |-> << >>, wroteDst |-> << >>, lateWrite |-> FALSE]

\* post_process_metadata without "object_detect.results".
NoResults == [set |-> FALSE, detections |-> << >>]

\* The size of the main stream (stream_->configuration().size, line 762).
StreamSize == [width |-> 640, height |-> 480]

\* lines 170-175
ProcessStart ==
    /\ pc = "start"
    /\ pc' = IF src.present THEN "parseHeader" ELSE "done"
    /\ UNCHANGED << inputs, dnnHeader_, apParams_, outputApParams_, outputBodyInfo_, body,
                    tasks, results, obs >>

\* lines 177-184
ParseHeader ==
    /\ pc = "parseHeader"
    /\ LET r == parseHeader(src, stride)
       IN /\ dnnHeader_' = r.hdr
          /\ apParams_' = IF r.ret = 0 THEN r.apParams ELSE apParams_
          /\ obs' = [obs EXCEPT !.ran = @ \cup {"parseHeader"}, !.hdrRet = r.ret,
                                !.schemaRead = {r.read[j] : j \in 1..Len(r.read)}]
          /\ pc' = IF r.ret # 0 THEN "done" ELSE "parseApParams"
    /\ UNCHANGED << inputs, outputApParams_, outputBodyInfo_, body, tasks, results >>

\* lines 186-191
ParseApParams ==
    /\ pc = "parseApParams"
    /\ LET r == parseApParams(src.fb, dnnHeader_)
       IN /\ outputApParams_' = r.out
          /\ obs' = [obs EXCEPT !.ran = @ \cup {"parseApParams"}, !.apRet = r.ret]
          /\ pc' = IF r.ret # 0 THEN "done" ELSE "populate"
    /\ UNCHANGED << inputs, dnnHeader_, apParams_, outputBodyInfo_, body, tasks, results >>

\* lines 193-198
PopulateOutputBodyInfo ==
    /\ pc = "populate"
    /\ LET r == populateOutputBodyInfo(arch, outputApParams_, outputBodyInfo_)
       IN /\ outputBodyInfo_' = r.info
          /\ obs' = [obs EXCEPT !.popSt = r.st]
          /\ pc' = CASE r.st = "ok" -> "parseBody"
                     [] r.st = "error" -> "done"
                     [] OTHER -> "fault"
    /\ UNCHANGED << inputs, dnnHeader_, apParams_, outputApParams_, body, tasks, results >>

\* parseOutputTensorBody(src + stride, stride), lines 398-475: the planning loop and
\* the order of the tasks.
PlanTensorBody ==
    /\ pc = "parseBody"
    /\ LET n == Len(outputApParams_)
           r == PlanTensors(arch, outputApParams_, dnnHeader_, stride,
                            outputBodyInfo_.totalSize, 0, stride, 0,
                            [plan |-> EmptyPlan, tdn |-> outputBodyInfo_.tensorDataNum])
       IN /\ outputBodyInfo_' = [outputBodyInfo_ EXCEPT !.tensorDataNum = r.tensorDataNum]
          /\ obs' = [obs EXCEPT !.planSt = r.st,
                                !.ran = IF r.st = "error"
                                        THEN @ \cup {"parseOutputTensorBody"} ELSE @,
                                !.bodyRet = IF r.st = "error" THEN -1 ELSE @,
                                !.wroteTmp = [t \in 0..(n - 1) |-> {}],
                                !.wroteDst = [t \in 0..(n - 1) |-> {}]]
          /\ body' = [tmpDst |-> ZeroArray(outputBodyInfo_.totalSize),
                      plan |-> r.plan,
                      idxs |-> IF r.st = "ok"
                               THEN SortIdxs([i \in 0..(n - 1) |-> i], r.plan.numLinesVec, 0, 0)
                               ELSE ZeroArray(0),
                      launched |-> 0, joined |-> 0, ret |-> 0]
          /\ tasks' = IF r.st = "ok" THEN [t \in 0..(n - 1) |-> NoTask] ELSE tasks
          /\ pc' = CASE r.st = "ok" -> IF n = 0 THEN "join" ELSE "launch"
                     [] r.st = "error" -> "done"
                     [] OTHER -> "fault"
    /\ UNCHANGED << inputs, dnnHeader_, apParams_, outputApParams_, results >>

\* lines 477-618: futures.emplace_back(std::async(..., tensorIdx, srcArr[tensorIdx],
\* offsets[tensorIdx])), in the order of idxs.
LaunchTask ==
    /\ pc = "launch"
    /\ LET t == body.idxs[body.launched]
       IN /\ tasks' = [tasks EXCEPT ![t] = [NoTask EXCEPT !.pc = "ready",
                                                          !.src = body.plan.srcArr[t + 1]]]
          /\ body' = [body EXCEPT !.launched = @ + 1]
          /\ pc' = IF body.launched + 1 >= Len(outputApParams_) THEN "join" ELSE "launch"
    /\ UNCHANGED << inputs, dnnHeader_, apParams_, outputApParams_, outputBodyInfo_,
                    results, obs >>

\* The decoder has returned to Process (or Process has ended).
Returned == pc \in {"interpret", "done", "fault"}

\* A task's step leaves Process where it is.
TaskFrame == UNCHANGED << inputs, pc, dnnHeader_, apParams_, outputApParams_, results >>

\* lines 485-503 and the dispatch on bitsPerElement (507, 528, 559-563)
TaskBegin(t) ==
    /\ tasks[t].pc = "ready"
    /\ LET param == outputApParams_[t + 1]
           outputTensorSize == body.plan.outSizes[t + 1]
           numLines == body.plan.numLinesVec[t + 1]
       IN tasks' = [tasks EXCEPT ![t] =
              IF outputTensorSize = 0 \/ param.bitsPerElement \notin {8, 16}
              THEN [@ EXCEPT !.pc = "done", !.ret = -1]
              ELSE [@ EXCEPT !.pc = IF numLines > 0 THEN "extract" ELSE "sort"]]
    /\ TaskFrame
    /\ UNCHANGED << outputBodyInfo_, body, obs >>

\* One line of the tensor's body: one iteration of the loop of line 509 or 530.
TaskExtractLine(t) ==
    /\ tasks[t].pc = "extract"
    /\ LET param == outputApParams_[t + 1]
           width == param.bitsPerElement \div 8
           outputTensorSize == body.plan.outSizes[t + 1]
           offset == body.plan.offsets[t + 1]
           me == tasks[t]
           scan == ScanLine(0, me.elementIndex, dnnHeader_.maxLineLen, width, outputTensorSize)
           reads == {scan[n] : n \in 1..Len(scan)}
           elementIndex1 == me.elementIndex + Len(scan)
           stop == ExtractDone(elementIndex1, width, outputTensorSize)
                   \/ me.i + 1 >= body.plan.numLinesVec[t + 1]
       IN /\ body' = [body EXCEPT !.tmpDst = StoreLine(@, src, param, offset, me.src, scan)]
          /\ obs' = [obs EXCEPT
                 !.bodyRead = @ \cup UNION {ElementBytes(param, me.src + r.at) : r \in reads},
                 !.wroteTmp[t] = @ \cup {offset + r.e : r \in reads},
                 !.lateWrite = @ \/ (Returned /\ reads # {})]
          /\ tasks' = [tasks EXCEPT ![t] = [@ EXCEPT !.i = @ + 1,
                                                     !.elementIndex = elementIndex1,
                                                     !.src = @ + stride,
                                                     !.pc = IF stop THEN "sort" ELSE "extract"]]
    /\ TaskFrame
    /\ UNCHANGED << outputBodyInfo_ >>

\* lines 567-615: the reorder, or the copy, into outputBodyInfo_.address.
TaskFinish(t) ==
    /\ tasks[t].pc = "sort"
    /\ LET param == outputApParams_[t + 1]
           offset == body.plan.offsets[t + 1]
           moves == TaskMoves(param, body.plan, t)
       IN /\ outputBodyInfo_' = [outputBodyInfo_ EXCEPT
                 !.address = ApplyMoves(@, body.tmpDst, offset, moves)]
          /\ obs' = [obs EXCEPT
                 !.wroteDst[t] = @ \cup {offset + moves[n].to : n \in 1..Len(moves)},
                 !.lateWrite = @ \/ (Returned /\ moves # << >>)]
          /\ tasks' = [tasks EXCEPT ![t] = [@ EXCEPT !.pc = "done", !.ret = 0]]
    /\ TaskFrame
    /\ UNCHANGED << body >>

TaskBeginStep == \E t \in DOMAIN tasks : TaskBegin(t)

TaskExtractStep == \E t \in DOMAIN tasks : TaskExtractLine(t)

TaskFinishStep == \E t \in DOMAIN tasks : TaskFinish(t)

\* ret += f.get()
JoinRetLast(ret, r) == r

JoinRet(ret, r) == ret + r

\* for (auto &f : futures): the loop ends after the last future.
JoinDoneOnError(joined, n, ret) == joined >= n \/ ret # 0

JoinDone(joined, n, ret) == joined >= n

\* lines 620-621: f.get() returns once the task of that future has finished.
JoinTask ==
    /\ pc = "join"
    /\ ~JoinDone(body.joined, body.launched, body.ret)
    /\ LET t == body.idxs[body.joined]
       IN /\ tasks[t].pc = "done"
          /\ body' = [body EXCEPT !.joined = @ + 1, !.ret = JoinRet(@, tasks[t].ret)]
    /\ UNCHANGED << inputs, pc, dnnHeader_, apParams_, outputApParams_, outputBodyInfo_,
                    tasks, results, obs >>

\* line 623 and lines 200-205
ReturnBody ==
    /\ pc = "join"
    /\ JoinDone(body.joined, body.launched, body.ret)
    /\ obs' = [obs EXCEPT !.ran = @ \cup {"parseOutputTensorBody"}, !.bodyRet = body.ret]
    /\ pc' = IF body.ret # 0 THEN "done" ELSE "interpret"
    /\ UNCHANGED << inputs, dnnHeader_, apParams_, outputApParams_, outputBodyInfo_, body,
                    tasks, results >>

\* lines 207-223. Detection(class, label, score, x, y, width, height); the assert of
\* line 214 ends the process when a class has no label.
Interpret ==
    /\ pc = "interpret"
    /\ LET data == processOutputTensor(arch, outputBodyInfo_, maxDetections_, threshold_,
                                       StreamSize)
           detections == [i \in 1..Len(data) |->
                             [category |-> data[i].class, confidence |-> data[i].score,
                              x |-> data[i].bbox.mXmin, y |-> data[i].bbox.mYmin,
                              width |-> data[i].bbox.mXmax - data[i].bbox.mXmin,
                              height |-> data[i].bbox.mYmax - data[i].bbox.mYmin]]
       IN IF \E i \in 1..Len(data) : ~(data[i].class < classes_)
          THEN pc' = "fault" /\ results' = results
          ELSE /\ pc' = "done"
               /\ results' = IF Len(data) # 0
                             THEN [set |-> TRUE, detections |-> detections]
                             ELSE results
    /\ obs' = [obs EXCEPT !.ran = @ \cup {"processOutputTensor"}]
    /\ UNCHANGED << inputs, dnnHeader_, apParams_, outputApParams_, outputBodyInfo_, body,
                    tasks >>

Next ==
    \/ ProcessStart
    \/ ParseHeader
    \/ ParseApParams
    \/ PopulateOutputBodyInfo
    \/ PlanTensorBody
    \/ LaunchTask
    \/ TaskBeginStep
    \/ TaskExtractStep
    \/ TaskFinishStep
    \/ JoinTask
    \/ ReturnBody
    \/ Interpret

\* ------------------------------------------------------------- inputs
\* A dimension and an output tensor of the schema table, as the flatbuffers reader
\* returns them. Dimension k (from 0) has id k; shift is 0 and scale 1.
FbDimensions(sizes, ser, pad) ==
    [k \in 1..Len(sizes) |-> [id |-> k - 1, size |-> sizes[k],
                              serializationIndex |-> ser[k], padding |-> pad]]

FbTensor(id, sizes, ser, bits, format) ==
    [id |-> id, numOfDimensions |-> Len(sizes), dimensions |-> FbDimensions(sizes, ser, 0),
     bitsPerElement |-> bits, shift |-> 0, scale |-> 1, format |-> format]

Id1 == << 0 >>
Id2 == << 0, 1 >>
Swap2 == << 1, 0 >>

\* The supported total of 61 elements as three tensors: boxes (4 x 10), classes
\* and scores (20), count (1).
SsdTensors(boxSizes, boxSer, boxBits, scoreBits, format) ==
    << FbTensor(0, boxSizes, boxSer, boxBits, format),
       FbTensor(1, << 20 >>, Id1, scoreBits, format),
       FbTensor(2, << 1 >>, Id1, 8, format) >>

NetworkId == 7

\* Lists of output tensors on which every parameter of a call is varied.
CoreLists ==
    { SsdTensors(<< 10, 4 >>, Swap2, 8, 16, TYPE_UNSIGNED),
      << FbTensor(0, << 61 >>, Id1, 8, TYPE_UNSIGNED) >>,
      << FbTensor(0, << 2, 3 >>, Swap2, 8, TYPE_UNSIGNED),
         FbTensor(1, << 3 >>, Id1, 16, TYPE_SIGNED) >> }

\* The output tensors of the network the header names.
TensorLists ==
    CoreLists \cup
    {   \* the supported topology, copied, reordered, and with 16-bit tensors
        SsdTensors(<< 10, 4 >>, Id2, 8, 8, TYPE_UNSIGNED),
        SsdTensors(<< 4, 10 >>, Swap2, 16, 8, TYPE_SIGNED),
        << FbTensor(0, << 61 >>, Id1, 8, TYPE_SIGNED) >>,
        \* more than three dimensions, with and without a reorder
        << FbTensor(0, << 61, 1, 1, 1 >>, << 1, 0, 2, 3 >>, 8, TYPE_UNSIGNED) >>,
        << FbTensor(0, << 2, 2, 2, 2 >>, << 3, 2, 1, 0 >>, 8, TYPE_UNSIGNED),
           FbTensor(1, << 45 >>, Id1, 8, TYPE_UNSIGNED) >>,
        << FbTensor(0, << 61, 1, 1, 1 >>, << 0, 1, 2, 3 >>, 8, TYPE_UNSIGNED) >>,
        \* element widths other than 8 and 16
        SsdTensors(<< 10, 4 >>, Id2, 4, 8, TYPE_UNSIGNED),
        SsdTensors(<< 10, 4 >>, Id2, 0, 8, TYPE_UNSIGNED),
        SsdTensors(<< 10, 4 >>, Id2, 12, 8, TYPE_UNSIGNED),
        SsdTensors(<< 10, 4 >>, Swap2, 24, 8, TYPE_UNSIGNED),
        SsdTensors(<< 10, 4 >>, Id2, 8, 32, TYPE_UNSIGNED),
        << FbTensor(0, << >>, << >>, 0, TYPE_UNSIGNED) >>,
        \* totals other than 61
        << FbTensor(0, << 2, 3 >>, Id2, 16, TYPE_SIGNED) >>,
        << FbTensor(0, << 62 >>, Id1, 8, TYPE_UNSIGNED) >>,
        \* a dimension of size 0
        << FbTensor(0, << 0 >>, Id1, 8, TYPE_UNSIGNED) >>,
        << FbTensor(0, << 61 >>, Id1, 8, TYPE_UNSIGNED),
           FbTensor(1, << 5, 0 >>, Id2, 8, TYPE_UNSIGNED) >>,
        \* products and sums past UINT32_MAX
        << FbTensor(0, << 65535, 65535, 2 >>, << 0, 1, 2 >>, 8, TYPE_UNSIGNED) >>,
        << FbTensor(0, << 32768, 32768, 4 >>, << 0, 1, 2 >>, 8, TYPE_UNSIGNED),
           FbTensor(1, << 61 >>, Id1, 8, TYPE_UNSIGNED) >>,
        \* no output tensor
        << >>
    }

\* A tensor with a non-zero padding in its third dimension.
PaddedTensor ==
    [FbTensor(1, << 10, 4 >>, Id2, 8, TYPE_UNSIGNED) EXCEPT
        !.dimensions = FbDimensions(<< 10, 4 >>, Id2, 0) \o FbDimensions(<< 1 >>, << 2 >>, 1),
        !.numOfDimensions = 3]

OneNetwork(l) == [networks |-> << [id |-> NetworkId, outputTensors |-> l] >>]

\* The schema tables: one network with the header's id, alone or among networks
\* with other ids; a table with no such network; a table with a padded dimension.
FbTables ==
    { OneNetwork(l) : l \in TensorLists }
    \cup
    { [networks |-> << [id |-> NetworkId + 1,
                        outputTensors |-> << FbTensor(0, << 6 >>, Id1, 8, TYPE_UNSIGNED) >>],
                       [id |-> NetworkId,
                        outputTensors |-> << FbTensor(0, << 61 >>, Id1, 8, TYPE_UNSIGNED) >>],
                       [id |-> NetworkId,
                        outputTensors |-> << FbTensor(0, << 6 >>, Id1, 8, TYPE_UNSIGNED) >>] >>],
      [networks |-> << [id |-> NetworkId + 1,
                        outputTensors |-> << FbTensor(0, << 61 >>, Id1, 8, TYPE_UNSIGNED) >>] >>],
      [networks |-> << [id |-> NetworkId,
                        outputTensors |-> << FbTensor(0, << 61 >>, Id1, 8, TYPE_UNSIGNED),
                                             PaddedTensor >>] >>] }

\* Byte patterns of the buffer after its header.
Ramp == [mul |-> 1, add |-> 0, mod |-> 256]

Patterns == { Ramp, [mul |-> 3, add |-> 1, mod |-> 7] }

Header(valid, maxLineLen, apParamSize) ==
    [frameValid |-> valid, frameCount |-> 0, maxLineLen |-> maxLineLen,
     apParamSize |-> apParamSize, networkId |-> NetworkId, tensorType |-> 0]

\* The parameters of a call other than the schema table.
Usual == [present |-> TRUE, stride |-> 4064, valid |-> 1, maxLineLen |-> 16, apParamSize |-> 6,
          pat |-> Ramp, maxDetections |-> 10, threshold |-> 3, classes |-> 256]

Unusual ==
    { [Usual EXCEPT !.stride = 16],
      [Usual EXCEPT !.stride = 16, !.maxLineLen = 8],
      [Usual EXCEPT !.maxLineLen = 8, !.pat = [mul |-> 3, add |-> 1, mod |-> 7]],
      [Usual EXCEPT !.apParamSize = 0, !.threshold = 70],
      [Usual EXCEPT !.pat = [mul |-> 3, add |-> 1, mod |-> 7], !.maxDetections = 2],
      [Usual EXCEPT !.pat = [mul |-> 3, add |-> 1, mod |-> 7], !.classes = 4] }

\* Every table under the usual parameters, the core lists under the others, one
\* invalid frame and one request that carries no tensor.
Calls ==
    { [par |-> Usual, fb |-> f] : f \in FbTables }
    \cup { [par |-> u, fb |-> OneNetwork(l)] : u \in Unusual, l \in CoreLists }
    \cup { [par |-> [Usual EXCEPT !.valid = 0], fb |-> OneNetwork(<< >>)],
           [par |-> [Usual EXCEPT !.present = FALSE], fb |-> OneNetwork(<< >>)] }

InitState ==
    /\ pc = "start"
    /\ dnnHeader_ = [frameValid |-> 0, frameCount |-> 0, maxLineLen |-> 0, apParamSize |-> 0,
                     networkId |-> 0, tensorType |-> 0]
    /\ apParams_ = << >>
    /\ outputApParams_ = << >>
    /\ outputBodyInfo_ = EmptyBodyInfo
    /\ body = NoBody
    /\ tasks = << >>
    /\ results = NoResults
    /\ obs = NoObs

CallState(c) ==
    /\ stride = c.par.stride
    /\ src = [present |-> c.par.present,
              hdr |-> Header(c.par.valid, c.par.maxLineLen, c.par.apParamSize),
              pat |-> c.par.pat, fb |-> c.fb]
    /\ maxDetections_ = c.par.maxDetections
    /\ threshold_ = c.par.threshold
    /\ classes_ = c.par.classes

Init ==
    /\ arch \in Archs
    /\ \E c \in Calls : CallState(c)
    /\ InitState

Spec == Init /\ [][Next]_vars

\* ------------------------------------------------ what the claims name
\* The element count of a tensor and the total, in plain arithmetic; "over" once
\* a product or the sum passes UINT32_MAX.
RECURSIVE TrueProduct(_, _)
TrueProduct(dims, acc) ==
    IF dims = << >> THEN [over |-> FALSE, val |-> acc]
    ELSE LET m == U32MulCarry(acc, Head(dims).size)
         IN IF m.carry # 0 THEN [over |-> TRUE, val |-> acc]
            ELSE TrueProduct(Tail(dims), m.val)

RECURSIVE TrueTotal(_, _)
TrueTotal(aps, acc) ==
    IF aps = << >> THEN [over |-> FALSE, val |-> acc]
    ELSE LET d == TrueProduct(Head(aps).vecDim, U32Of(1))
             sum == U32AddCarry(acc, d.val)
         IN IF d.over \/ sum.carry # 0 THEN [over |-> TRUE, val |-> acc]
            ELSE TrueTotal(Tail(aps), sum.val)

\* The schema parse has succeeded: outputApParams_ holds the descriptors.
Described == "parseApParams" \in obs.ran /\ obs.apRet = 0

LayoutOverflows == TrueTotal(outputApParams_, U32Of(0)).over

LayoutEmpty ==
    \/ outputApParams_ = << >>
    \/ ~LayoutOverflows /\ TrueTotal(outputApParams_, U32Of(0)).val = U32Of(0)

LayoutUnexpected ==
    /\ ~LayoutOverflows
    /\ TrueTotal(outputApParams_, U32Of(0)).val # U32Of(PplDnnOutputTensorSize)

TaskStarted == \E t \in DOMAIN tasks : tasks[t].pc # "none"

NoTensorWork == ~TaskStarted /\ obs.bodyRead = {}

AllTasksDone == \A t \in DOMAIN tasks : tasks[t].pc = "done"

Attached == results.set

\* C1: a detection result is attached only when the header parse, the schema parse,
\* the layout planning and every tensor task have succeeded and the total element
\* count is 61; a decode in which a stage fails attaches nothing.
C1_WholeOrNothing ==
    Attached =>
        /\ {"parseHeader", "parseApParams", "parseOutputTensorBody"} \subseteq obs.ran
        /\ obs.hdrRet = 0
        /\ obs.apRet = 0
        /\ obs.popSt = "ok"
        /\ obs.planSt = "ok"
        /\ obs.bodyRet = 0
        /\ \A t \in DOMAIN tasks : tasks[t].pc = "done" /\ tasks[t].ret = 0
        /\ ~LayoutUnexpected
        /\ outputBodyInfo_.totalSize = PplDnnOutputTensorSize

\* A decode in which one tensor task failed and another succeeded has ended with
\* nothing attached.
C1_Witness_TaskFailed ==
    /\ pc = "done"
    /\ ~Attached
    /\ \E t \in DOMAIN tasks : tasks[t].pc = "done" /\ tasks[t].ret = -1
    /\ \E t \in DOMAIN tasks : tasks[t].pc = "done" /\ tasks[t].ret = 0
    /\ ~LayoutUnexpected

C2_Witness_Unexpected ==
    /\ pc = "done"
    /\ Described /\ LayoutUnexpected
    /\ TaskStarted /\ obs.bodyRead # {}
    /\ "parseOutputTensorBody" \in obs.ran /\ obs.bodyRet = 0

\* Tensor t of the decoded descriptors.
Param(t) == outputApParams_[t + 1]

Tensors == 0..(Len(outputApParams_) - 1)

UnsupportedWidth == \E t \in Tensors : Param(t).bitsPerElement \notin {8, 16}

FailureReported ==
    \/ obs.popSt = "error"
    \/ "parseOutputTensorBody" \in obs.ran /\ obs.bodyRet # 0

\* C6 as stated: a descriptor list in which some tensor's element width is neither
\* 8 nor 16 bits (widths below 8 included) never ends in a fault: the decode ends
\* with a reported failure and attaches no detections.
C6_Original ==
    (Described /\ UnsupportedWidth) =>
        /\ pc # "fault"
        /\ ~Attached
        /\ pc = "done" => FailureReported

\* The planning loop has faulted on a tensor whose width is below 8 bits.
C6_Witness_Fault ==
    /\ pc = "fault"
    /\ Described /\ UnsupportedWidth
    /\ obs.popSt = "ok" /\ obs.planSt = "fault"

HighRankReorder(t) == SortingRequired(Param(t)) /\ Param(t).numDimensions > DimensionMax

\* C7 as stated: the task of a tensor that needs the reorder and has more than 3
\* dimensions fails, so the decode fails: it writes nothing to the output array,
\* and no result comes from a reorder over the first 3 dimensions only.
C7_Original ==
    Described =>
        /\ \A t \in DOMAIN tasks :
              (HighRankReorder(t) /\ tasks[t].pc = "done") =>
                  tasks[t].ret = -1 /\ obs.wroteDst[t] = {}
        /\ ((\E t \in Tensors : HighRankReorder(t)) /\ pc \in {"interpret", "done"}) =>
              FailureReported /\ ~Attached

\* Detections are attached by a decode with a 4-dimensional reordered tensor.
C7_Witness_Attached ==
    /\ Attached
    /\ \E t \in DOMAIN tasks : HighRankReorder(t) /\ tasks[t].ret = 0 /\ obs.wroteDst[t] # {}

\* C8 as stated: for dimension sizes in 0..65535 the planner never faults, and it
\* returns a reported failure when the descriptor list is empty or the total
\* element count is 0.
C8_Original ==
    (Described /\ obs.popSt # "none") =>
        /\ obs.popSt # "fault"
        /\ LayoutEmpty => obs.popSt = "error"

\* The planner has faulted on a dimension of size 0.
C8_Witness_Fault ==
    /\ pc = "fault"
    /\ obs.popSt = "fault"
    /\ \E t \in Tensors : \E d \in 1..Len(Param(t).vecDim) : Param(t).vecDim[d].size = 0

\* C9: once the decoder has returned (with success or failure) every launched task
\* has finished, so the interpreter starts only after all of them, and no task
\* writes to the arrays after the return.
C9_JoinBeforeReturn ==
    /\ Returned => \A t \in DOMAIN tasks : tasks[t].pc = "done"
    /\ ~obs.lateWrite

\* The decoder has returned a failure from a decode of several tasks in which one
\* task failed and another wrote its elements.
C9_Witness_FailedDecodeJoined ==
    /\ pc = "done"
    /\ "parseOutputTensorBody" \in obs.ran /\ obs.bodyRet # 0
    /\ obs.planSt = "ok"
    /\ body.joined = Len(outputApParams_) /\ body.joined >= 2
    /\ \E t \in DOMAIN tasks : tasks[t].ret = -1
    /\ \E t \in DOMAIN tasks : tasks[t].ret = 0 /\ obs.wroteDst[t] # {}

\* The element count of tensor t (the product of its dimension sizes) and the sum
\* of the element counts of the tensors declared before it.
ElementCount(t) == ProdSeq([d \in 1..Len(Param(t).vecDim) |-> Param(t).vecDim[d].size])

OffsetOf(t) == SumSeq([u \in 1..t |-> ElementCount(u - 1)])

Region(t) == OffsetOf(t)..(OffsetOf(t) + ElementCount(t) - 1)

\* The decode of the tensors one after the other, in the order of declaration:
\* each task's lines in turn, then its reorder or copy.
RECURSIVE SequentialLines(_, _, _, _, _)
SequentialLines(t, i, elementIndex, lineSrc, tmpDst) ==
    LET width == Param(t).bitsPerElement \div 8
        outputTensorSize == body.plan.outSizes[t + 1]
        scan == ScanLine(0, elementIndex, dnnHeader_.maxLineLen, width, outputTensorSize)
        stored == StoreLine(tmpDst, src, Param(t), body.plan.offsets[t + 1], lineSrc, scan)
        elementIndex1 == elementIndex + Len(scan)
    IN IF ExtractDone(elementIndex1, width, outputTensorSize)
          \/ i + 1 >= body.plan.numLinesVec[t + 1]
       THEN stored
       ELSE SequentialLines(t, i + 1, elementIndex1, lineSrc + stride, stored)

SequentialTask(t, arrays) ==
    IF body.plan.outSizes[t + 1] = 0 \/ Param(t).bitsPerElement \notin {8, 16} THEN arrays
    ELSE LET tmpDst == IF body.plan.numLinesVec[t + 1] > 0
                       THEN SequentialLines(t, 0, 0, body.plan.srcArr[t + 1], arrays.tmpDst)
                       ELSE arrays.tmpDst
         IN [tmpDst |-> tmpDst,
             dst |-> ApplyMoves(arrays.dst, tmpDst, body.plan.offsets[t + 1],
                                TaskMoves(Param(t), body.plan, t))]

RECURSIVE SequentialDecode(_, _)
SequentialDecode(t, arrays) ==
    IF t >= Len(outputApParams_) THEN arrays
    ELSE SequentialDecode(t + 1, SequentialTask(t, arrays))

SequentialOutput ==
    SequentialDecode(0, [tmpDst |-> ZeroArray(outputBodyInfo_.totalSize),
                         dst |-> ZeroArray(outputBodyInfo_.totalSize)]).dst

Planned == obs.popSt = "ok" /\ obs.planSt = "ok"

\* C10 as stated: for a descriptor list the planner accepts, every write of task t
\* to the scratch array and to the output array is at an index in
\* [offset_t, offset_t + elementCount_t), offset_t being the sum of the element
\* counts of the tensors declared before t, and that range lies within the total;
\* so no two tasks write the same index, and the final output array is the one
\* the sequential decode produces, whatever the order of the tasks' steps.
C10_Original ==
    Planned =>
        /\ \A t \in Tensors :
              /\ obs.wroteTmp[t] \cup obs.wroteDst[t] \subseteq Region(t)
              /\ OffsetOf(t) + ElementCount(t) <= outputBodyInfo_.totalSize
        /\ \A t, u \in Tensors :
              t # u => (obs.wroteTmp[t] \cup obs.wroteDst[t])
                           \cap (obs.wroteTmp[u] \cup obs.wroteDst[u]) = {}
        /\ AllTasksDone => outputBodyInfo_.address = SequentialOutput

\* A task has written outside the range the claim gives it: a tensor declared
\* before it has an element width below 8 bits.
C10_Witness_Shifted ==
    /\ Planned
    /\ \E t \in Tensors : /\ obs.wroteTmp[t] # {}
                          /\ ~(obs.wroteTmp[t] \subseteq Region(t))
                          /\ \E u \in 0..(t - 1) : Param(u).bitsPerElement < 8

\* The statement of C10 restricted to the descriptor lists in which every element
\* width is at least 8 bits.
C10_WhenWidthsAtLeast8 ==
    (Planned /\ \A t \in Tensors : Param(t).bitsPerElement >= 8) => C10_Original

\* ------------------------------------------------- the header parser alone
MaxStride == 16

MaxApParamSize == 18

\* Calls whose buffer has any stride above the header size and any schema size.
InitHeader ==
    /\ arch \in Archs
    /\ \E st \in (DnnHeaderSize + 1)..MaxStride, n \in 0..MaxApParamSize, valid \in {0, 1},
          pat \in Patterns :
          CallState([par |-> [Usual EXCEPT !.stride = st, !.valid = valid,
                                           !.apParamSize = n, !.pat = pat],
                     fb |-> OneNetwork(<< >>)])
    /\ InitState

NextHeader ==
    \/ ProcessStart
    \/ ParseHeader

SpecHeader == InitHeader /\ [][NextHeader]_vars

\* The buffer offset of column col of line line.
LineColumn(line, col) == line * stride + col

\* Where C3 places schema byte j.
SchemaByteAt(j) ==
    IF DnnHeaderSize + j < stride THEN LineColumn(0, DnnHeaderSize + j)
    ELSE LET r == j - (stride - DnnHeaderSize)
         IN LineColumn(1 + r \div stride, r % stride)

HeaderParsed == "parseHeader" \in obs.ran /\ obs.hdrRet = 0

\* C3: with a stride above 12 and a valid frame, the header parser returns as
\* schema byte j the buffer byte at line 0, column 12 + j when 12 + j < stride and
\* otherwise the byte at line 1 + (j - (stride - 12)) div stride, column
\* (j - (stride - 12)) mod stride, and it reads no other byte of the buffer past
\* the header: after a wrap it resumes at column 0.
C3_DeStriping ==
    (HeaderParsed /\ stride > DnnHeaderSize) =>
        /\ Len(apParams_) = dnnHeader_.apParamSize
        /\ dnnHeader_.apParamSize = src.hdr.apParamSize
        /\ \A j \in 0..(Len(apParams_) - 1) : apParams_[j + 1] = SrcByte(src, SchemaByteAt(j))
        /\ obs.schemaRead = {SchemaByteAt(j) : j \in 0..(Len(apParams_) - 1)}

\* A schema that spans three lines of a buffer whose bytes are all different has
\* been copied.
C3_Witness_TwoWraps ==
    /\ HeaderParsed
    /\ src.pat = Ramp
    /\ Len(apParams_) > (stride - DnnHeaderSize) + stride
    /\ (2 * stride) \in obs.schemaRead

\* ---------------------------------------------- the interpreter alone
ScoreValues == {4, 5, 6}

CountValues == {-3, -1, 0, 1, 3, 10, 11, 200}

CapValues == {0, 1, 2, 3, 10, 12}

\* A decoded array: unit boxes, class i for candidate i, the given scores for the
\* first four candidates and 5, 4, 5, ... for the others, the given count.
DecodedArray(scores, count) ==
    [x \in 0..(PplDnnOutputTensorSize - 1) |->
        CASE x < 2 * PplTotalDetections -> 0
          [] x < 4 * PplTotalDetections -> 1
          [] x < 5 * PplTotalDetections -> x - 4 * PplTotalDetections
          [] x < 6 * PplTotalDetections ->
                LET i == x - 5 * PplTotalDetections
                IN IF i < Len(scores) THEN scores[i + 1] ELSE 5 - (i % 2)
          [] OTHER -> count]

\* The state in which parseOutputTensorBody has returned 0 with a decoded array.
InitDetect ==
    /\ arch \in Archs
    /\ \E cap \in CapValues, thr \in {0, 5} :
          CallState([par |-> [Usual EXCEPT !.maxDetections = cap, !.threshold = thr],
                     fb |-> OneNetwork(<< FbTensor(0, << 61 >>, Id1, 8, TYPE_SIGNED) >>)])
    /\ pc = "interpret"
    /\ dnnHeader_ = src.hdr
    /\ apParams_ = << >>
    /\ outputApParams_ = << >>
    /\ \E scores \in [1..4 -> ScoreValues], count \in CountValues :
          outputBodyInfo_ = [address |-> DecodedArray(scores, count),
                             totalSize |-> PplDnnOutputTensorSize, tensorNum |-> 1,
                             tensorDataNum |-> [i \in {0} |-> PplDnnOutputTensorSize]]
    /\ body = NoBody
    /\ tasks = << >>
    /\ results = NoResults
    /\ obs = [NoObs EXCEPT !.ran = {"parseHeader", "parseApParams", "parseOutputTensorBody"},
                           !.popSt = "ok", !.planSt = "ok"]

NextDetect == Interpret

SpecDetect == InitDetect /\ [][NextDetect]_vars

Decoded(x) == outputBodyInfo_.address[x]

\* The candidates C4 keeps: i below min(numDetections, 10) with score[i] >= threshold.
Candidates ==
    {i \in 0..(Min(Decoded(6 * PplTotalDetections), PplTotalDetections) - 1) :
        Decoded(5 * PplTotalDetections + i) >= threshold_}

\* Candidate number n (from 1) in array order.
Candidate(n) == CHOOSE i \in Candidates : Cardinality({m \in Candidates : m < i}) = n - 1

Interpreted ==
    /\ pc = "done"
    /\ "processOutputTensor" \in obs.ran
    /\ outputBodyInfo_.totalSize = PplDnnOutputTensorSize

\* C4 as stated: the detections returned for a 61-element decoded array are the
\* first maxDetections of the candidates i in 0..min(numDetections, 10) - 1 with
\* score[i] >= threshold, in array order.
C4_Original ==
    Interpreted =>
        /\ Len(results.detections) = Min(maxDetections_, Cardinality(Candidates))
        /\ \A n \in 1..Len(results.detections) :
              /\ results.detections[n].confidence = Decoded(5 * PplTotalDetections + Candidate(n))
              /\ results.detections[n].category =
                     FloatToUint8(arch, Decoded(4 * PplTotalDetections + Candidate(n)))

\* Detections have been returned although the array's count element is negative.
C4_Witness_NegativeCount ==
    /\ Interpreted
    /\ Decoded(6 * PplTotalDetections) < 0
    /\ Len(results.detections) > 0

\* The statement of C4 restricted to the arrays whose count element is not negative.
C4_WhenCountNotNegative ==
    (Interpreted /\ Decoded(6 * PplTotalDetections) >= 0) => C4_Original

\* ------------------------------------------------------ the reorder
MaxDimSize == 3

\* The sequences of serialization indices of a tensor of n dimensions: the
\* permutations of 0..n-1.
SerializationOrders(n) == {q \in [1..n -> 0..(n - 1)] : \A a, b \in 1..n : q[a] = q[b] => a = b}

\* Calls whose schema has a tensor of 2 elements and then a tensor of 1 to 3
\* dimensions of any sizes, stored in any order of its dimensions, 8 or 16 bits wide.
\* No element width here is below 8 and no size is 0, so nothing is divided by
\* zero and the target does not matter: one target is drawn.
InitReorder ==
    /\ arch = "aarch64"
    /\ \E n \in 1..DimensionMax, bits \in {8, 16} :
          \E sizes \in [1..n -> 1..MaxDimSize], ser \in SerializationOrders(n) :
              CallState([par |-> Usual,
                         fb |-> OneNetwork(<< FbTensor(0, << 2 >>, Id1, 8, TYPE_UNSIGNED),
                                              FbTensor(1, sizes, ser, bits, TYPE_UNSIGNED) >>)])
    /\ InitState

SpecReorder == InitReorder /\ [][Next]_vars

\* The dimension of tensor t stored at serialized position d (0 varies fastest).
StoredAt(t, d) == CHOOSE k \in 1..Len(Param(t).vecDim) : Param(t).vecDim[k].serializationIndex = d

\* coordinate[d] of serialized position p.
Coordinate(t, p, d) ==
    (p \div ProdSeq([e \in 1..d |-> Param(t).vecDim[StoredAt(t, e - 1)].size]))
        % Param(t).vecDim[StoredAt(t, d)].size

\* coefficient[d]: the product of the sizes of the dimensions whose ordinal is below
\* the ordinal of the dimension stored at serialized position d.
Coefficient(t, d) ==
    LET dims == Param(t).vecDim
        before == {k \in 1..Len(dims) : dims[k].ordinal < dims[StoredAt(t, d)].ordinal}
    IN ProdSeq([k \in 1..Len(dims) |-> IF k \in before THEN dims[k].size ELSE 1])

Destination(t, p) ==
    SumSeq([e \in 1..Param(t).numDimensions |-> Coefficient(t, e - 1) * Coordinate(t, p, e - 1)])

\* Tensor t has at most 3 dimensions, stored in a permuted order, and its task has
\* ended with success.
Reordered(t) ==
    /\ Planned
    /\ t \in DOMAIN tasks
    /\ tasks[t].pc = "done" /\ tasks[t].ret = 0
    /\ Param(t).numDimensions <= DimensionMax
    /\ {Param(t).vecDim[k].serializationIndex : k \in 1..Param(t).numDimensions}
           = 0..(Param(t).numDimensions - 1)
    /\ \E k \in 1..Param(t).numDimensions : Param(t).vecDim[k].serializationIndex # k - 1

IsTwoByThreeReversed(t) ==
    /\ Param(t).numDimensions = 2
    /\ Param(t).vecDim[1].size = 2 /\ Param(t).vecDim[1].serializationIndex = 1
    /\ Param(t).vecDim[2].size = 3 /\ Param(t).vecDim[2].serializationIndex = 0

LineOf(off) == off \div stride

\* The last line occupied by the header and the schema: line 0 holds the header.
LastSchemaLine ==
    IF obs.schemaRead = {} THEN 0
    ELSE CHOOSE l \in {LineOf(o) : o \in obs.schemaRead} :
             \A o \in obs.schemaRead : LineOf(o) <= l

\* The buffer bytes read both as schema and as tensor data in this call.
ReadTwice == obs.schemaRead \cap obs.bodyRead

\* The schema does not fit in what line 0 has left after the header.
SchemaWraps == dnnHeader_.apParamSize > stride - DnnHeaderSize

\* C11 as stated: once the layout of the body is planned, the body of the first
\* tensor starts at column 0 of the line after the last line occupied by the
\* header and the schema, and no buffer byte that the header parser read as schema
\* is read as tensor data in the same call.
C11_Original ==
    (HeaderParsed /\ Planned /\ Tensors # {}) =>
        /\ body.plan.srcArr[1] = LineColumn(LastSchemaLine + 1, 0)
        /\ ReadTwice = {}

\* A schema that wraps into line 1 has been parsed, and a tensor task has read
\* as tensor data a byte of line 1 that the header parser read as schema.
C11_Witness_ReadTwice ==
    /\ HeaderParsed /\ Planned
    /\ SchemaWraps
    /\ LastSchemaLine >= 1
    /\ body.plan.srcArr[1] = LineColumn(1, 0)
    /\ ReadTwice # {}

\* The statement of C11 restricted to the calls whose schema ends in line 0.
C11_WhenSchemaInLineZero ==
    (HeaderParsed /\ ~SchemaWraps) => C11_Original

=============================================================================
